---- MODULE Spec2Model ----
(***************************************************************************)
(* PythonUniversalSpeech: the Loader (UniversalSpeech/load.py) and the     *)
(* UniversalSpeech facade (UniversalSpeech/__init__.py) over the native    *)
(* UniversalSpeech.dll.  The native library is an integer and a string     *)
(* parameter store plus the log of the native calls the facade issues.     *)
(***************************************************************************)
EXTENDS Integers, Sequences, FiniteSets, TLC

VARIABLES
    arch,       \* platform.architecture()[0] of the running process
    fs,         \* package directory: folder -> [exists, files]
    opened,     \* dll paths opened in this process by ctypes.CDLL
    uspeech,    \* UniversalSpeech.__uspeech: the held handle, or NoHandle
    values,     \* native integer parameters (speechGetValue / speechSetValue)
    strings,    \* native string parameters (speechGetString), engine slots
    tailName,   \* native string parameter at every engine offset >= MaxEngines
    restype,    \* speechGetString.restype attribute of the handle
    pc,         \* "idle", or "get_engines" while the loop of get_engines runs
    i,          \* get_engines: loop counter
    engines,    \* get_engines: list built so far
    lastOp,     \* the facade call being / last executed, with its arguments
    calls,      \* native calls issued by that call, in order
    ret,        \* its return value
    raised      \* the exception it raised, "none" if it returned

vars == <<arch, fs, opened, uspeech, values, strings, tailName, restype,
          pc, i, engines, lastOp, calls, ret, raised>>

loaderVars == <<arch, fs, opened, uspeech>>
nativeVars == <<values, strings, tailName, restype>>
loopVars   == <<pc, i, engines>>

-----------------------------------------------------------------------------
(* Bounds *)

MaxEngines == 3

-----------------------------------------------------------------------------
(* Python values that cross the facade with more than one type *)

None       == [t |-> "None"]
PyInt(n)   == [t |-> "int", v |-> n]
PyBool(b)  == [t |-> "bool", v |-> IF b THEN 1 ELSE 0]
PyStr(s)   == [t |-> "str", v |-> s]
Missing    == [t |-> "missing"]      \* argument not passed by the caller

\* Python truthiness, as used by `not name`
Truthy(x) ==
    CASE x.t = "None" -> FALSE
      [] x.t = "str"  -> x.v # ""
      [] x.t = "int"  -> x.v # 0
      [] x.t = "bool" -> x.v # 0

\* ctypes conversion of an int / bool argument to a C int
c_int(x) == x.v

\* a parameter default of a def
Default(x, d) == IF x = Missing THEN d ELSE x

-----------------------------------------------------------------------------
(* Identifiers for parameters *)

VOLUME == 0
VOLUME_MAX == 1
VOLUME_MIN == 2
VOLUME_SUPPORTED == 3
RATE == 4
RATE_MAX == 5
RATE_MIN == 6
RATE_SUPPORTED == 7
PITCH == 8
PITCH_MAX == 9
PITCH_MIN == 10
PITCH_SUPPORTED == 11
INFLEXION == 12
INFLEXION_MAX == 13
INFLEXION_MIN == 14
INFLEXION_SUPPORTED == 15
PAUSED == 16
PAUSE_SUPPORTED == 17
BUSY == 18
BUSY_SUPPORTED == 19
WAIT == 20
WAIT_SUPPORTED == 21

ENABLE_NATIVE_SPEECH == 65535
VOICE == 65536
LANGUAGE == 131072
SUBENGINE == 196608
ENGINE == 262144
ENGINE_AVAILABLE == 327680
AUTO_ENGINE == 65534
USER_PARAM == 16777216

-----------------------------------------------------------------------------
(* Loader *)

NoHandle == [path |-> <<>>]

dll_files == {"dolapi.dll", "jfwapi.dll", "nvdaControllerClient.dll",
              "SAAPI32.dll", "UniversalSpeech.dll", "UniversalSpeech.tlb"}

Archs   == {"32bit", "64bit"}
Folders == {"lib", "lib64"}

lib_folder(a) == IF a = "64bit" THEN "lib64" ELSE "lib"

\* variant: only the primary module is looked for
_files_check_primary_only(a, f) ==
    IF ~ f[lib_folder(a)].exists
    THEN FALSE
    ELSE "UniversalSpeech.dll" \in f[lib_folder(a)].files

_files_check(a, f) ==
    IF ~ f[lib_folder(a)].exists
    THEN FALSE
    ELSE \A file \in dll_files : file \in f[lib_folder(a)].files

\* Loader.load(): [raised, handle]
load(a, f) ==
    IF ~ _files_check(a, f)
    THEN [raised |-> "DLLFileNotFoundError", handle |-> NoHandle]
    ELSE [raised |-> "none",
          handle |-> [path |-> <<lib_folder(a), "UniversalSpeech.dll">>]]

\* UniversalSpeech.__init__
Construct ==
    /\ uspeech = NoHandle
    /\ pc = "idle"
    /\ lastOp.name = "start"
    /\ LET r == load(arch, fs) IN
        /\ raised' = r.raised
        /\ uspeech' = r.handle
        /\ opened' = IF r.raised = "none" THEN opened \cup {r.handle.path}
                                          ELSE opened
    /\ lastOp' = [name |-> "__init__"]
    /\ calls' = <<>>
    /\ ret' = None
    /\ UNCHANGED <<arch, fs, nativeVars, loopVars>>

\* the packaging of the install: a required file disappears from a folder
RemoveFile ==
    \E d \in Folders : \E file \in dll_files :
        /\ fs[d].exists
        /\ file \in fs[d].files
        /\ fs' = [fs EXCEPT ![d].files = @ \ {file}]
        /\ UNCHANGED <<arch, opened, uspeech, nativeVars, loopVars,
                       lastOp, calls, ret, raised>>

AddFile ==
    \E d \in Folders : \E file \in dll_files :
        /\ fs[d].exists
        /\ file \notin fs[d].files
        /\ fs' = [fs EXCEPT ![d].files = @ \cup {file}]
        /\ UNCHANGED <<arch, opened, uspeech, nativeVars, loopVars,
                       lastOp, calls, ret, raised>>

RemoveFolder ==
    \E d \in Folders :
        /\ fs[d].exists
        /\ fs' = [fs EXCEPT ![d] = [exists |-> FALSE, files |-> {}]]
        /\ UNCHANGED <<arch, opened, uspeech, nativeVars, loopVars,
                       lastOp, calls, ret, raised>>

CreateFolder ==
    \E d \in Folders :
        /\ ~ fs[d].exists
        /\ fs' = [fs EXCEPT ![d] = [exists |-> TRUE, files |-> {}]]
        /\ UNCHANGED <<arch, opened, uspeech, nativeVars, loopVars,
                       lastOp, calls, ret, raised>>

\* the process ends; the next run constructs a new facade
ProcessExit ==
    /\ lastOp.name = "__init__"
    /\ uspeech' = NoHandle
    /\ opened' = {}
    /\ lastOp' = [name |-> "start"]
    /\ raised' = "none"
    /\ UNCHANGED <<arch, fs, nativeVars, loopVars, calls, ret>>

\* the next run uses the other interpreter build
SwitchInterpreter ==
    /\ uspeech = NoHandle
    /\ lastOp.name = "start"
    /\ arch' \in Archs \ {arch}
    /\ UNCHANGED <<fs, opened, uspeech, nativeVars, loopVars,
                   lastOp, calls, ret, raised>>

-----------------------------------------------------------------------------
(* The native library behind the handle *)

RetCodes == {0, 1}

NULL    == [ptr |-> 0]
WStr(s) == [ptr |-> 1, s |-> s]

\* ctypes conversion of a returned pointer under the function's restype
as_restype(rt, p) ==
    IF rt = "c_wchar_p"
    THEN IF p.ptr = 0 THEN None ELSE PyStr(p.s)
    ELSE PyInt(p.ptr)

SupportedIds == {VOLUME_SUPPORTED, RATE_SUPPORTED, PITCH_SUPPORTED,
                 INFLEXION_SUPPORTED}
PlainIds     == 0 .. 21
EngineSlots  == 0 .. (MaxEngines - 1)
IntIds       == PlainIds \cup {ENABLE_NATIVE_SPEECH, ENGINE}
                    \cup {ENGINE_AVAILABLE + k : k \in EngineSlots}
StrIds       == {ENGINE + k : k \in EngineSlots}

\* execution context of one facade call
Ctx(o) == [values |-> values, restype |-> restype, calls |-> <<>>,
           oracle |-> o, ret |-> None, raised |-> "none"]

Oracles(n) == [1 .. n -> RetCodes]

NativeInt(vals, what) == IF what \in DOMAIN vals THEN vals[what] ELSE 0

NativeString(what) ==
    IF what \in DOMAIN strings THEN strings[what]
    ELSE IF what >= ENGINE + MaxEngines /\ what < ENGINE_AVAILABLE
         THEN tailName
         ELSE NULL

speechSay(m, msg, interrupt) ==
    [m EXCEPT !.calls = Append(@, [fn |-> "speechSay", msg |-> msg,
                                   interrupt |-> interrupt,
                                   rc |-> Head(m.oracle)]),
              !.ret = PyInt(Head(m.oracle)),
              !.oracle = Tail(@)]

speechSayA(m, msg, interrupt) ==
    [m EXCEPT !.calls = Append(@, [fn |-> "speechSayA", msg |-> msg,
                                   interrupt |-> interrupt,
                                   rc |-> Head(m.oracle)]),
              !.ret = PyInt(Head(m.oracle)),
              !.oracle = Tail(@)]

brailleDisplay(m, msg) ==
    [m EXCEPT !.calls = Append(@, [fn |-> "brailleDisplay", msg |-> msg,
                                   rc |-> Head(m.oracle)]),
              !.ret = PyInt(Head(m.oracle)),
              !.oracle = Tail(@)]

speechStop(m) ==
    [m EXCEPT !.calls = Append(@, [fn |-> "speechStop",
                                   rc |-> Head(m.oracle)]),
              !.ret = PyInt(Head(m.oracle)),
              !.oracle = Tail(@)]

speechGetValue(m, what) ==
    [m EXCEPT !.calls = Append(@, [fn |-> "speechGetValue", what |-> what]),
              !.ret = PyInt(NativeInt(m.values, what))]

speechSetValue(m, what, v) ==
    [m EXCEPT !.values = IF what \in DOMAIN @ THEN [@ EXCEPT ![what] = v]
                                              ELSE @,
              !.calls = Append(@, [fn |-> "speechSetValue", what |-> what,
                                   value |-> v]),
              !.ret = PyInt(Head(m.oracle)),
              !.oracle = Tail(@)]

speechGetString(m, what) ==
    [m EXCEPT !.calls = Append(@, [fn |-> "speechGetString", what |-> what]),
              !.ret = as_restype(m.restype, NativeString(what))]

-----------------------------------------------------------------------------
(* UniversalSpeech: the methods *)

MethodNames == {"__init__", "say", "say_a", "braille", "speech", "speech_a",
                "stop", "get_value", "set_value", "get_string",
                "enable_native_speech", "engine_used", "get_engines",
                "rate_supported", "volume_supported", "pitch_supported",
                "inflexion_supported", "set_rate", "set_volume", "set_pitch",
                "set_inflexion"}

AttributeError(m) == [m EXCEPT !.raised = "AttributeError", !.ret = None]

say(m, msg, interrupt) == speechSay(m, msg, c_int(interrupt))

say_a(m, msg, interrupt) == speechSayA(m, msg, c_int(interrupt))

braille(m, msg) == brailleDisplay(m, msg)

\* variant: braille only when the speak call reported success
speech_if_said(m, msg) ==
    LET m1 == say(m, msg, PyBool(TRUE))
        m2 == IF Truthy(m1.ret) THEN braille(m1, msg) ELSE m1
    IN  [m2 EXCEPT !.ret = None]

speech(m, msg) ==
    LET m1 == say(m, msg, PyBool(TRUE))
        m2 == braille(m1, msg)
    IN  [m2 EXCEPT !.ret = None]

speech_a(m, msg) ==
    IF "sayA" \notin MethodNames
    THEN AttributeError(m)
    ELSE LET m1 == say_a(m, msg, PyBool(TRUE))
             m2 == braille(m1, msg)
         IN  [m2 EXCEPT !.ret = None]

stop(m) == speechStop(m)

get_value(m, what) == speechGetValue(m, what)

set_value(m, what, value) == speechSetValue(m, what, c_int(value))

\* variant: restype left at the ctypes default
get_string_default_restype(m, what) == speechGetString(m, what)

get_string(m, what) ==
    speechGetString([m EXCEPT !.restype = "c_wchar_p"], what)

\* variant: the neighbouring identifier is written
enable_native_speech_auto_engine(m, enabled) ==
    LET m1 == set_value(m, AUTO_ENGINE, enabled)
    IN  [m1 EXCEPT !.ret = None]

enable_native_speech(m, enabled) ==
    LET m1 == set_value(m, ENABLE_NATIVE_SPEECH, enabled)
    IN  [m1 EXCEPT !.ret = None]

\* variant: the id is used without the ENGINE base
engine_used_no_base(m) ==
    LET m1 == get_value(m, ENGINE)
    IN  get_string(m1, m1.ret.v)

engine_used(m) ==
    LET m1 == get_value(m, ENGINE)
    IN  get_string(m1, ENGINE + m1.ret.v)

rate_supported(m) ==
    LET m1 == get_value(m, RATE_SUPPORTED)
    IN  [m1 EXCEPT !.ret = PyBool(m1.ret.v # 0)]

volume_supported(m) ==
    LET m1 == get_value(m, VOLUME_SUPPORTED)
    IN  [m1 EXCEPT !.ret = PyBool(m1.ret.v # 0)]

pitch_supported(m) ==
    LET m1 == get_value(m, PITCH_SUPPORTED)
    IN  [m1 EXCEPT !.ret = PyBool(m1.ret.v # 0)]

inflexion_supported(m) ==
    LET m1 == get_value(m, INFLEXION_SUPPORTED)
    IN  [m1 EXCEPT !.ret = PyBool(m1.ret.v # 0)]

UnsupportedError(m) == [m EXCEPT !.raised = "UnsupportedError", !.ret = None]

\* variant: `if min_rate:` in place of `if min_rate is not None:`
set_rate_truthy_min(m, value, min_rate, max_rate) ==
    LET m0 == rate_supported(m) IN
    IF ~ Truthy(m0.ret)
    THEN UnsupportedError(m0)
    ELSE LET m1 == set_value(m0, RATE, value)
             m2 == IF Truthy(min_rate)
                   THEN set_value(m1, RATE_MIN, min_rate) ELSE m1
             m3 == IF max_rate # None
                   THEN set_value(m2, RATE_MAX, max_rate) ELSE m2
         IN  [m3 EXCEPT !.ret = None]

set_rate(m, value, min_rate, max_rate) ==
    LET m0 == rate_supported(m) IN
    IF ~ Truthy(m0.ret)
    THEN UnsupportedError(m0)
    ELSE LET m1 == set_value(m0, RATE, value)
             m2 == IF min_rate # None
                   THEN set_value(m1, RATE_MIN, min_rate) ELSE m1
             m3 == IF max_rate # None
                   THEN set_value(m2, RATE_MAX, max_rate) ELSE m2
         IN  [m3 EXCEPT !.ret = None]

set_volume(m, value, min_volume, max_volume) ==
    LET m0 == volume_supported(m) IN
    IF ~ Truthy(m0.ret)
    THEN UnsupportedError(m0)
    ELSE LET m1 == set_value(m0, VOLUME, value)
             m2 == IF min_volume # None
                   THEN set_value(m1, VOLUME_MIN, min_volume) ELSE m1
             m3 == IF max_volume # None
                   THEN set_value(m2, VOLUME_MAX, max_volume) ELSE m2
         IN  [m3 EXCEPT !.ret = None]

\* variant: the max write kept the identifier of the setter it was copied to
set_pitch_pasted_max(m, value, min_pitch, max_pitch) ==
    LET m0 == pitch_supported(m) IN
    IF ~ Truthy(m0.ret)
    THEN UnsupportedError(m0)
    ELSE LET m1 == set_value(m0, PITCH, value)
             m2 == IF min_pitch # None
                   THEN set_value(m1, PITCH_MIN, min_pitch) ELSE m1
             m3 == IF max_pitch # None
                   THEN set_value(m2, INFLEXION_MAX, max_pitch) ELSE m2
         IN  [m3 EXCEPT !.ret = None]

set_pitch(m, value, min_pitch, max_pitch) ==
    LET m0 == pitch_supported(m) IN
    IF ~ Truthy(m0.ret)
    THEN UnsupportedError(m0)
    ELSE LET m1 == set_value(m0, PITCH, value)
             m2 == IF min_pitch # None
                   THEN set_value(m1, PITCH_MIN, min_pitch) ELSE m1
             m3 == IF max_pitch # None
                   THEN set_value(m2, PITCH_MAX, max_pitch) ELSE m2
         IN  [m3 EXCEPT !.ret = None]

\* variant: the value is written before the capability is checked
set_inflexion_write_first(m, value, min_inflexion, max_inflexion) ==
    LET m0 == set_value(m, INFLEXION, value)
        m1 == inflexion_supported(m0)
    IN
    IF ~ Truthy(m1.ret)
    THEN UnsupportedError(m1)
    ELSE LET m2 == IF min_inflexion # None
                   THEN set_value(m1, INFLEXION_MIN, min_inflexion) ELSE m1
             m3 == IF max_inflexion # None
                   THEN set_value(m2, INFLEXION_MAX, max_inflexion) ELSE m2
         IN  [m3 EXCEPT !.ret = None]

set_inflexion(m, value, min_inflexion, max_inflexion) ==
    LET m0 == inflexion_supported(m) IN
    IF ~ Truthy(m0.ret)
    THEN UnsupportedError(m0)
    ELSE LET m1 == set_value(m0, INFLEXION, value)
             m2 == IF min_inflexion # None
                   THEN set_value(m1, INFLEXION_MIN, min_inflexion) ELSE m1
             m3 == IF max_inflexion # None
                   THEN set_value(m2, INFLEXION_MAX, max_inflexion) ELSE m2
         IN  [m3 EXCEPT !.ret = None]

\* get_engines, before the loop: engines = [], i = 0
get_engines_enter ==
    /\ i' = 0
    /\ engines' = <<>>
    /\ pc' = "get_engines"

\* variant: availability read at the ENGINE base
get_engines_loop_engine_base(m) ==
    LET m1   == get_string(m, ENGINE + i)
        name == m1.ret
        m2   == get_value(m1, ENGINE + i)
        avail == PyBool(m2.ret.v # 0)
    IN  IF ~ Truthy(name)
        THEN [m |-> [m1 EXCEPT !.ret = [t |-> "list", v |-> engines]],
              engines |-> engines, i |-> i, pc |-> "idle"]
        ELSE [m |-> [m2 EXCEPT !.ret = None],
              engines |-> Append(engines, [name |-> name,
                                           available |-> avail,
                                           Id |-> i]),
              i |-> i + 1, pc |-> "get_engines"]

\* get_engines, one pass of `while True`, and the return after the break
get_engines_loop(m) ==
    LET m1   == get_string(m, ENGINE + i)
        name == m1.ret
        m2   == get_value(m1, ENGINE_AVAILABLE + i)
        avail == PyBool(m2.ret.v # 0)
    IN  IF ~ Truthy(name)
        THEN [m |-> [m1 EXCEPT !.ret = [t |-> "list", v |-> engines]],
              engines |-> engines, i |-> i, pc |-> "idle"]
        ELSE [m |-> [m2 EXCEPT !.ret = None],
              engines |-> Append(engines, [name |-> name,
                                           available |-> avail,
                                           Id |-> i]),
              i |-> i + 1, pc |-> "get_engines"]

-----------------------------------------------------------------------------
(* Inputs of the calls *)

Msgs      == {"", "a", "b", "ab", "Hello, world.", "Bonjour"}
Flags     == {Missing, PyBool(TRUE), PyBool(FALSE)}
Values    == {PyInt(150)}
MinArgs   == {Missing, PyInt(0)}
MaxArgs   == {Missing, PyInt(200)}
RawIds    == {ENABLE_NATIVE_SPEECH, RATE, ENGINE}
RawValues == {PyBool(TRUE), PyBool(FALSE), PyInt(150)}
EngineNames == <<"A", "B", "C", "D", "E", "F">>
MaxIter   == MaxEngines + 2

-----------------------------------------------------------------------------
(* State machine *)

Init ==
    /\ arch = "64bit"
    /\ fs = [d \in Folders |-> [exists |-> TRUE, files |-> dll_files]]
    /\ opened = {}
    /\ uspeech = NoHandle
    /\ values = [id \in IntIds |-> 0]
    /\ strings = [id \in StrIds |-> WStr("")]
    /\ tailName = NULL
    /\ restype = "c_int"
    /\ pc = "idle"
    /\ i = 0
    /\ engines = <<>>
    /\ lastOp = [name |-> "start"]
    /\ calls = <<>>
    /\ ret = None
    /\ raised = "none"

\* a facade exists and no call is in progress
Ready == uspeech # NoHandle /\ pc = "idle"

\* the call `op` ran to its end in context m
Finish(op, m) ==
    /\ lastOp' = op
    /\ values' = m.values
    /\ restype' = m.restype
    /\ calls' = m.calls
    /\ ret' = m.ret
    /\ raised' = m.raised
    /\ UNCHANGED <<loaderVars, strings, tailName, loopVars>>

Say ==
    /\ Ready
    /\ \E msg \in Msgs, interrupt \in Flags, o \in Oracles(1) :
        Finish([name |-> "say", msg |-> msg, interrupt |-> interrupt],
               say(Ctx(o), msg, Default(interrupt, PyBool(TRUE))))

SayA ==
    /\ Ready
    /\ \E msg \in Msgs, interrupt \in Flags, o \in Oracles(1) :
        Finish([name |-> "say_a", msg |-> msg, interrupt |-> interrupt],
               say_a(Ctx(o), msg, Default(interrupt, PyBool(TRUE))))

Braille ==
    /\ Ready
    /\ \E msg \in Msgs, o \in Oracles(1) :
        Finish([name |-> "braille", msg |-> msg], braille(Ctx(o), msg))

Speech ==
    /\ Ready
    /\ \E msg \in Msgs, o \in Oracles(2) :
        Finish([name |-> "speech", msg |-> msg], speech(Ctx(o), msg))

SpeechA ==
    /\ Ready
    /\ \E msg \in Msgs, o \in Oracles(2) :
        Finish([name |-> "speech_a", msg |-> msg], speech_a(Ctx(o), msg))

Stop ==
    /\ Ready
    /\ \E o \in Oracles(1) : Finish([name |-> "stop"], stop(Ctx(o)))

GetValue ==
    /\ Ready
    /\ \E what \in RawIds :
        Finish([name |-> "get_value", what |-> what],
               get_value(Ctx(<<>>), what))

SetValue ==
    /\ Ready
    /\ \E what \in RawIds, value \in RawValues, o \in Oracles(1) :
        Finish([name |-> "set_value", what |-> what, value |-> value],
               set_value(Ctx(o), what, value))

GetString ==
    /\ Ready
    /\ \E what \in RawIds :
        Finish([name |-> "get_string", what |-> what],
               get_string(Ctx(<<>>), what))

EnableNativeSpeech ==
    /\ Ready
    /\ \E enabled \in Flags, o \in Oracles(1) :
        Finish([name |-> "enable_native_speech", enabled |-> enabled],
               enable_native_speech(Ctx(o), Default(enabled, PyBool(TRUE))))

EngineUsed ==
    /\ Ready
    /\ Finish([name |-> "engine_used"], engine_used(Ctx(<<>>)))

GetEnginesCall ==
    /\ Ready
    /\ get_engines_enter
    /\ lastOp' = [name |-> "get_engines"]
    /\ calls' = <<>>
    /\ ret' = None
    /\ raised' = "none"
    /\ UNCHANGED <<loaderVars, nativeVars>>

GetEnginesLoop ==
    /\ pc = "get_engines"
    /\ i < MaxIter
    /\ LET r == get_engines_loop([Ctx(<<>>) EXCEPT !.calls = calls]) IN
        /\ pc' = r.pc
        /\ i' = r.i
        /\ engines' = r.engines
        /\ values' = r.m.values
        /\ restype' = r.m.restype
        /\ calls' = r.m.calls
        /\ ret' = r.m.ret
        /\ raised' = r.m.raised
    /\ UNCHANGED <<loaderVars, strings, tailName, lastOp>>

SetRate ==
    /\ Ready
    /\ \E value \in Values, mn \in MinArgs, mx \in MaxArgs, o \in Oracles(3) :
        Finish([name |-> "set_rate", value |-> value, min |-> mn, max |-> mx],
               set_rate(Ctx(o), value, Default(mn, None), Default(mx, None)))

SetVolume ==
    /\ Ready
    /\ \E value \in Values, mn \in MinArgs, mx \in MaxArgs, o \in Oracles(3) :
        Finish([name |-> "set_volume", value |-> value, min |-> mn,
                max |-> mx],
               set_volume(Ctx(o), value, Default(mn, None), Default(mx, None)))

SetPitch ==
    /\ Ready
    /\ \E value \in Values, mn \in MinArgs, mx \in MaxArgs, o \in Oracles(3) :
        Finish([name |-> "set_pitch", value |-> value, min |-> mn,
                max |-> mx],
               set_pitch(Ctx(o), value, Default(mn, None), Default(mx, None)))

SetInflexion ==
    /\ Ready
    /\ \E value \in Values, mn \in MinArgs, mx \in MaxArgs, o \in Oracles(3) :
        Finish([name |-> "set_inflexion", value |-> value, min |-> mn,
                max |-> mx],
               set_inflexion(Ctx(o), value, Default(mn, None),
                             Default(mx, None)))

\* the native library's state moves between two calls; what the last call
\* observed is forgotten
Forget ==
    /\ lastOp' = [name |-> "idle"]
    /\ calls' = <<>>
    /\ ret' = None
    /\ raised' = "none"

\* the active engine changes what it supports: one *_SUPPORTED flag flips
SwitchEngine ==
    /\ Ready
    /\ \E id \in SupportedIds :
        values' = [values EXCEPT ![id] = 1 - @]
    /\ Forget
    /\ UNCHANGED <<loaderVars, strings, tailName, restype, loopVars>>

\* screen readers start and stop: the engine table of the library changes
EnginesChange ==
    /\ Ready
    /\ \/ \E k \in EngineSlots :
            /\ strings' = [strings EXCEPT ![ENGINE + k] =
                             IF @ = WStr("") THEN WStr(EngineNames[k + 1])
                                             ELSE WStr("")]
            /\ UNCHANGED <<values, tailName>>
       \/ \E k \in EngineSlots :
            /\ values' = [values EXCEPT ![ENGINE_AVAILABLE + k] = 1 - @]
            /\ UNCHANGED <<strings, tailName>>
       \/ \E cur \in (-1 .. (MaxEngines - 1)) \ {values[ENGINE]} :
            /\ values' = [values EXCEPT ![ENGINE] = cur]
            /\ UNCHANGED <<strings, tailName>>
       \/ /\ tailName' = IF tailName = NULL THEN WStr("Z") ELSE NULL
          /\ UNCHANGED <<strings, values>>
    /\ Forget
    /\ UNCHANGED <<loaderVars, restype, loopVars>>

NextLoader ==
    \/ Construct
    \/ ProcessExit
    \/ SwitchInterpreter
    \/ RemoveFile
    \/ AddFile
    \/ RemoveFolder
    \/ CreateFolder

NextSpeech ==
    \/ Construct
    \/ Say
    \/ SayA
    \/ Braille
    \/ Speech
    \/ SpeechA
    \/ Stop

NextValues ==
    \/ Construct
    \/ GetValue
    \/ SetValue
    \/ GetString
    \/ EnableNativeSpeech

NextEngines ==
    \/ Construct
    \/ EnginesChange
    \/ EngineUsed
    \/ GetEnginesCall
    \/ GetEnginesLoop

NextSetters ==
    \/ Construct
    \/ SwitchEngine
    \/ SetRate
    \/ SetVolume
    \/ SetPitch
    \/ SetInflexion

Next ==
    \/ NextLoader
    \/ NextSpeech
    \/ NextValues
    \/ NextEngines
    \/ NextSetters

SpecLoader  == Init /\ [][NextLoader]_vars
SpecSpeech  == Init /\ [][NextSpeech]_vars
SpecValues  == Init /\ [][NextValues]_vars
SpecEngines == Init /\ [][NextEngines]_vars
SpecSetters == Init /\ [][NextSetters]_vars
Spec        == Init /\ [][Next]_vars

\* get_engines is a running call: its loop keeps taking steps
FairSpecEngines == SpecEngines /\ WF_vars(GetEnginesLoop)

-----------------------------------------------------------------------------
(* Properties *)

SetCall(what, v) == [fn |-> "speechSetValue", what |-> what, value |-> v]
GetCall(what)    == [fn |-> "speechGetValue", what |-> what]
StrCall(what)    == [fn |-> "speechGetString", what |-> what]

IsSet(c) == c.fn = "speechSetValue"
Writes(log) == SelectSeq(log, IsSet)

\* the folder the running interpreter needs, and whether it is complete
NeededFolder == IF arch = "64bit" THEN "lib64" ELSE "lib"
AllPresent ==
    /\ fs[NeededFolder].exists
    /\ \A file \in {"dolapi.dll", "jfwapi.dll", "nvdaControllerClient.dll",
                    "SAAPI32.dll", "UniversalSpeech.dll",
                    "UniversalSpeech.tlb"} : file \in fs[NeededFolder].files

\* C1: constructing the facade (Loader.load) yields an opened handle exactly
\* when all six required files are in the folder of the process architecture;
\* otherwise it raises DLLFileNotFoundError and opens no module.
C1_LoadIffAllFilesPresent ==
    [][(lastOp.name = "start" /\ lastOp'.name = "__init__") =>
        IF AllPresent
        THEN /\ raised' = "none"
             /\ uspeech' = [path |-> <<NeededFolder, "UniversalSpeech.dll">>]
             /\ opened' = opened \cup {uspeech'.path}
        ELSE /\ raised' = "DLLFileNotFoundError"
             /\ uspeech' = NoHandle
             /\ opened' = opened]_vars

C1_Witness ==
    /\ lastOp.name = "__init__"
    /\ raised = "DLLFileNotFoundError"
    /\ fs[NeededFolder].exists
    /\ Cardinality(fs[NeededFolder].files) = 5
    /\ opened = {}

\* the writes a gated setter owes for its arguments, in order
OwedWrites(op, X, XMIN, XMAX) ==
    <<SetCall(X, op.value.v)>>
        \o (IF op.min \in {Missing, None} THEN <<>>
                                          ELSE <<SetCall(XMIN, op.min.v)>>)
        \o (IF op.max \in {Missing, None} THEN <<>>
                                          ELSE <<SetCall(XMAX, op.max.v)>>)

\* C2: set_rate raises UnsupportedError when RATE_SUPPORTED reads false; when
\* it reads true it writes RATE, then RATE_MIN iff min was supplied (0
\* included), then RATE_MAX iff max was supplied, in that order, nothing else.
C2_SetRateWritesInOrder ==
    lastOp.name = "set_rate" =>
        IF values[RATE_SUPPORTED] = 0
        THEN raised = "UnsupportedError"
        ELSE /\ raised = "none"
             /\ Writes(calls) = OwedWrites(lastOp, RATE, RATE_MIN, RATE_MAX)

C2_Witness ==
    /\ lastOp.name = "set_rate"
    /\ lastOp.min = PyInt(0)
    /\ lastOp.max = PyInt(200)
    /\ raised = "none"
    /\ Writes(calls) = <<SetCall(4, 150), SetCall(6, 0), SetCall(5, 200)>>

Setters == {"set_rate", "set_volume", "set_pitch", "set_inflexion"}

FlagOf(name) ==
    CASE name = "set_rate"      -> RATE_SUPPORTED
      [] name = "set_volume"    -> VOLUME_SUPPORTED
      [] name = "set_pitch"     -> PITCH_SUPPORTED
      [] name = "set_inflexion" -> INFLEXION_SUPPORTED

FamilyOf(name) ==
    CASE name = "set_rate"      -> {RATE, RATE_MIN, RATE_MAX}
      [] name = "set_volume"    -> {VOLUME, VOLUME_MIN, VOLUME_MAX}
      [] name = "set_pitch"     -> {PITCH, PITCH_MIN, PITCH_MAX}
      [] name = "set_inflexion" -> {INFLEXION, INFLEXION_MIN, INFLEXION_MAX}

\* C3: a gated setter called while its *_SUPPORTED flag reads 0 raises
\* UnsupportedError before any native set-value call: no write is logged and
\* every native parameter value is as before the call.
C3_UnsupportedBeforeAnyWrite ==
    [][(lastOp'.name \in Setters /\ values[FlagOf(lastOp'.name)] = 0) =>
        /\ raised' = "UnsupportedError"
        /\ Writes(calls') = <<>>
        /\ values' = values]_vars

C3_Witness ==
    /\ lastOp.name = "set_pitch"
    /\ lastOp.min # Missing
    /\ lastOp.max # Missing
    /\ raised = "UnsupportedError"
    /\ values[PITCH_SUPPORTED] = 0
    /\ values[RATE] = 150

\* the offset of the first empty engine name of the native table, if any
EmptyName(p) == p.ptr = 0 \/ p.s = ""
NameAt(k) == IF k < MaxEngines THEN strings[ENGINE + k] ELSE tailName
HasEmpty == \E k \in 0 .. MaxEngines : EmptyName(NameAt(k))
FirstEmpty ==
    CHOOSE k \in 0 .. MaxEngines :
        /\ EmptyName(NameAt(k))
        /\ \A j \in 0 .. (k - 1) : ~ EmptyName(NameAt(j))

GetEnginesDone == lastOp.name = "get_engines" /\ pc = "idle"

C4_Result ==
    (GetEnginesDone /\ HasEmpty) =>
        /\ ret.t = "list"
        /\ Len(ret.v) = FirstEmpty
        /\ \A j \in 1 .. Len(ret.v) : ret.v[j].Id = j - 1
        /\ \A n \in 1 .. Len(calls) :
              /\ calls[n].fn = "speechGetString" =>
                    calls[n].what - ENGINE \in 0 .. FirstEmpty
              /\ calls[n].fn = "speechGetValue" =>
                    calls[n].what - ENGINE_AVAILABLE \in 0 .. (FirstEmpty - 1)

\* C4: when the native table has an empty name at some offset k, get_engines
\* terminates and returns exactly k descriptors with ids 0 .. k-1 ascending;
\* nothing above k is read and availability is not read at k.
C4_GetEnginesTerminates ==
    /\ [] C4_Result
    /\ (pc = "get_engines" /\ HasEmpty) ~> (pc = "idle")

C4_Witness ==
    /\ GetEnginesDone
    /\ strings[ENGINE] = WStr("A")
    /\ strings[ENGINE + 1] = WStr("B")
    /\ strings[ENGINE + 2] = WStr("")
    /\ Len(ret.v) = 2
    /\ ret.v[1].Id = 0
    /\ ret.v[2].Id = 1

\* C5: speech(text) issues the native speak-text call and then the native
\* braille-display call, both with text, whatever the speak call returned.
C5_SayBeforeBraille ==
    lastOp.name = "speech" =>
        /\ Len(calls) = 2
        /\ calls[1].fn = "speechSay"
        /\ calls[1].msg = lastOp.msg
        /\ calls[2].fn = "brailleDisplay"
        /\ calls[2].msg = lastOp.msg

C5_Witness ==
    /\ lastOp.name = "speech"
    /\ lastOp.msg = "Hello, world."
    /\ Len(calls) = 2
    /\ calls[1].fn = "speechSay"
    /\ calls[1].rc = 0
    /\ calls[2].fn = "brailleDisplay"

\* what set_value(ENABLE_NATIVE_SPEECH, b) does from the current state
NativeSpeechLog(b) == <<SetCall(65535, IF b THEN 1 ELSE 0)>>
NativeSpeechStore(b) == [values EXCEPT ![65535] = IF b THEN 1 ELSE 0]

\* C6: enable_native_speech(b) and set_value(ENABLE_NATIVE_SPEECH, b) issue
\* the same single native set-value call (identifier 0xFFFF, value b) and leave
\* the same native state, for b True and False; no argument means b = True.
C6_EnableNativeSpeechIsSetValue ==
    [][/\ lastOp'.name = "enable_native_speech" =>
            \E b \in BOOLEAN :
                /\ b = (lastOp'.enabled \in {Missing, PyBool(TRUE)})
                /\ calls' = NativeSpeechLog(b)
                /\ values' = NativeSpeechStore(b)
       /\ (/\ lastOp'.name = "set_value"
           /\ lastOp'.what = ENABLE_NATIVE_SPEECH
           /\ lastOp'.value.t = "bool") =>
            \E b \in BOOLEAN :
                /\ b = (lastOp'.value = PyBool(TRUE))
                /\ calls' = NativeSpeechLog(b)
                /\ values' = NativeSpeechStore(b)]_vars

C6_Witness ==
    /\ lastOp.name = "enable_native_speech"
    /\ lastOp.enabled = Missing
    /\ calls = <<SetCall(65535, 1)>>
    /\ values[65535] = 1

\* width of an offset range of the identifier table
OffsetRange == LANGUAGE - VOICE

Range(base) == base .. (base + OffsetRange - 1)

Disjoint(A, B) == A \cap B = {}

NoCollision ==
    /\ Disjoint(Range(ENGINE), Range(ENGINE_AVAILABLE))
    /\ \A R \in {Range(ENGINE), Range(ENGINE_AVAILABLE)} :
        /\ Disjoint(R, 0 .. 21)
        /\ Disjoint(R, {ENABLE_NATIVE_SPEECH, AUTO_ENGINE})
        /\ Disjoint(R, Range(VOICE))
        /\ Disjoint(R, Range(LANGUAGE))
        /\ Disjoint(R, Range(SUBENGINE))

\* C7: the descriptor get_engines reports with id i carries the name read at
\* ENGINE + i and the availability read at ENGINE_AVAILABLE + i, and over the
\* whole offset range the ENGINE and ENGINE_AVAILABLE identifiers collide
\* neither with each other nor with any other identifier or range.
C7_IdentifierArithmetic ==
    /\ NoCollision
    /\ GetEnginesDone =>
        /\ Len(calls) = 2 * Len(ret.v) + 1
        /\ \A j \in 1 .. Len(ret.v) :
            LET d == ret.v[j] IN
            /\ d.Id \in 0 .. (OffsetRange - 1)
            /\ calls[2 * j - 1] = StrCall(ENGINE + d.Id)
            /\ calls[2 * j] = GetCall(ENGINE_AVAILABLE + d.Id)
            /\ d.name = PyStr(NameAt(d.Id).s)
            /\ d.available = PyBool(values[ENGINE_AVAILABLE + d.Id] # 0)

C7_Witness ==
    /\ GetEnginesDone
    /\ Len(ret.v) = 2
    /\ ret.v[1] = [name |-> PyStr("A"), available |-> PyBool(FALSE), Id |-> 0]
    /\ ret.v[2] = [name |-> PyStr("B"), available |-> PyBool(TRUE), Id |-> 1]
    /\ values[ENGINE_AVAILABLE] = 0
    /\ values[ENGINE_AVAILABLE + 1] = 1

\* C8: engine_used reads the engine id e with get_value(ENGINE), then returns
\* get_string(ENGINE + e); when get_engines reports a descriptor with id e the
\* value returned is that descriptor's name; no native write is made.
C8_EngineUsedName ==
    [][lastOp'.name = "engine_used" =>
        LET e == values[ENGINE] IN
        /\ calls' = <<GetCall(ENGINE), StrCall(ENGINE + e)>>
        /\ values' = values
        /\ (HasEmpty /\ e \in 0 .. (FirstEmpty - 1)) =>
                ret' = PyStr(NameAt(e).s)]_vars

C8_Witness ==
    /\ lastOp.name = "engine_used"
    /\ values[ENGINE] = 1
    /\ HasEmpty
    /\ FirstEmpty = 2
    /\ ret = PyStr("B")

\* C9: speech_a(msg) issues the native speak-first-letter call and then the
\* braille display of msg, and returns without an exception.
C9_SpeechACompletes ==
    lastOp.name = "speech_a" =>
        /\ raised = "none"
        /\ Len(calls) = 2
        /\ calls[1].fn = "speechSayA"
        /\ calls[1].msg = lastOp.msg
        /\ calls[2].fn = "brailleDisplay"
        /\ calls[2].msg = lastOp.msg

\* C10: a gated setter reads only its own *_SUPPORTED flag and writes only its
\* own value, min and max; every other native parameter keeps its value, and
\* the facade holds the handle it obtained at construction after every call.
C10_SetterFrame ==
    [][/\ lastOp'.name \in Setters =>
            /\ \A n \in 1 .. Len(calls') :
                IF calls'[n].fn = "speechSetValue"
                THEN calls'[n].what \in FamilyOf(lastOp'.name)
                ELSE calls'[n] = GetCall(FlagOf(lastOp'.name))
            /\ \A id \in DOMAIN values \ FamilyOf(lastOp'.name) :
                values'[id] = values[id]
       /\ uspeech # NoHandle => uspeech' = uspeech]_vars

C10_Witness ==
    /\ lastOp.name = "set_volume"
    /\ raised = "none"
    /\ Len(calls) = 4
    /\ values[VOLUME] = 150
    /\ values[VOLUME_MAX] = 200
    /\ values[RATE] = 150
    /\ values[RATE_MAX] = 0
    /\ values[PITCH] = 0
    /\ values[INFLEXION_MAX] = 200

====
